---------------------------- MODULE Spec2Model ----------------------------
(***************************************************************************)
(* Model of GoHexToAscii (cmd/main.go): the hex decoder HexToAscii and the *)
(* batch loop processFiles with its two sinks (local folder, Google        *)
(* Sheets) and the cancellation context set by the signal goroutine.       *)
(*                                                                         *)
(* Text is a sequence of one-character strings, a payload a sequence of    *)
(* byte values 0..255.                                                     *)
(***************************************************************************)
EXTENDS Integers, Sequences, FiniteSets, TLC

VARIABLES
    hexStr,       \* decoder specification: the argument of HexToAscii
    decoded,      \* decoder specification: what HexToAscii returned, or NoResult
    files,        \* ioutil.ReadDir(srcFolder): entries sorted by name
    dstFiles,     \* destination folder: path -> bytes, for the paths that exist
    statFails,    \* os.Stat in the destination folder fails, not with not-exist
    exportOption, \* "LocalFolder" or "GoogleSheets"
    config,       \* GoogleConfig: [spreadsheetId, useApiKey]
    nCreated,     \* spreadsheets the service has created so far
    sigChan,      \* signals buffered in sigChan (capacity 1)
    handlerPc,    \* the signal goroutine: "wait" (at <-sigChan) or "done"
    ctxDone,      \* ctx.Done() is closed (cancel() was called)
    pc,           \* main goroutine: "idle", "select", "body", or how
                  \* processFiles ended: "returned", "interrupted", "listfailed"
    idx,          \* position of the range loop in files (1-based)
    run,          \* "first" or "second" invocation of the program
    log,          \* this run: what each visited entry printed, in order
    trace,        \* this run: file and service calls made, in order
    prev          \* the finished first run: its log and the folder it left

vars == <<hexStr, decoded, files, dstFiles, statFails, exportOption, config,
          nCreated, sigChan, handlerPc, ctxDone, pc, idx, run, log, trace, prev>>

decVars == <<hexStr, decoded>>
batchVars == <<files, dstFiles, statFails, exportOption, config, nCreated,
               sigChan, handlerPc, ctxDone, pc, idx, run, log, trace, prev>>

-----------------------------------------------------------------------------
(* Bounds *)

\* longest text handed to HexToAscii in the decoder specification
MaxLen == 4
\* most entries in the source folder
MaxFiles == 3

-----------------------------------------------------------------------------
(* HexToAscii *)

NoResult == [str |-> <<>>, err |-> "none"]

\* encoding/hex reverseHexTable, read by hex.Decode: the value of a hex digit,
\* 0xff for every other byte
FromHexChar(c) ==
    CASE c = "0" -> 0  [] c = "1" -> 1  [] c = "2" -> 2  [] c = "3" -> 3
      [] c = "4" -> 4  [] c = "5" -> 5  [] c = "6" -> 6  [] c = "7" -> 7
      [] c = "8" -> 8  [] c = "9" -> 9
      [] c = "a" -> 10 [] c = "b" -> 11 [] c = "c" -> 12
      [] c = "d" -> 13 [] c = "e" -> 14 [] c = "f" -> 15
      [] c = "A" -> 10 [] c = "B" -> 11 [] c = "C" -> 12
      [] c = "D" -> 13 [] c = "E" -> 14 [] c = "F" -> 15
      [] OTHER -> 255

DecodeByteSwapped(a, b) == ((b * 16) + a) % 256

\* hex.Decode: dst[i] = (a << 4) | b, a the first digit of the pair
DecodeByte(a, b) == ((a * 16) + b) % 256

RECURSIVE DecodeLoop(_, _, _)
\* hex.Decode's loop over the pairs (src[j-1], src[j]), then its length check
DecodeLoop(src, j, dst) ==
    IF j <= Len(src)
    THEN LET a == FromHexChar(src[j - 1])
             b == FromHexChar(src[j])
         IN  IF a > 15 THEN [str |-> dst, err |-> "InvalidByteError"]
             ELSE IF b > 15 THEN [str |-> dst, err |-> "InvalidByteError"]
             ELSE DecodeLoop(src, j + 2, Append(dst, DecodeByte(a, b)))
    ELSE IF Len(src) % 2 = 1
         THEN IF FromHexChar(src[j - 1]) > 15
              THEN [str |-> dst, err |-> "InvalidByteError"]
              ELSE [str |-> dst, err |-> "ErrLength"]
         ELSE [str |-> dst, err |-> "nil"]

DecodeStringNoLengthCheck(s) ==
    DecodeLoop(IF Len(s) % 2 = 1 THEN SubSeq(s, 1, Len(s) - 1) ELSE s, 2, <<>>)

\* hex.DecodeString(hexStr): the bytes decoded so far and the error
DecodeString(s) == DecodeLoop(s, 2, <<>>)

\* strings.ReplaceAll(s, old, "") for a one-character old
ReplaceAll(s, old) == SelectSeq(s, LAMBDA c : c # old)

\* HexToAscii: strip " ", "\n", "\r", decode; "" with the error when decoding
\* fails. string(asciiBytes) keeps every byte, so the payload is r.str itself.
HexToAscii(s) ==
    LET cleaned == ReplaceAll(ReplaceAll(ReplaceAll(s, " "), "\n"), "\r")
        r == DecodeString(cleaned)
    IN  IF r.err # "nil" THEN [str |-> <<>>, err |-> r.err]
        ELSE [str |-> r.str, err |-> "nil"]

-----------------------------------------------------------------------------
(* Names, destination paths, rows *)

\* filepath.Ext: the suffix from the last "." of the last path element
RECURSIVE ExtFrom(_, _)
ExtFrom(path, i) ==
    IF i < 1 \/ path[i] = "/" THEN <<>>
    ELSE IF path[i] = "." THEN SubSeq(path, i, Len(path))
    ELSE ExtFrom(path, i - 1)

Ext(path) == ExtFrom(path, Len(path))

\* strings.TrimSuffix
TrimSuffix(s, suffix) ==
    IF /\ Len(suffix) <= Len(s)
       /\ SubSeq(s, Len(s) - Len(suffix) + 1, Len(s)) = suffix
    THEN SubSeq(s, 1, Len(s) - Len(suffix))
    ELSE s

DstPathKeepExt(name) == name \o <<".", "t", "x", "t">>

\* dstPath of processFiles, relative to dstFolder
DstPath(name) == TrimSuffix(name, Ext(name)) \o <<".", "t", "x", "t">>

\* base64.StdEncoding's alphabet
B64Table ==
    <<"A", "B", "C", "D", "E", "F", "G", "H", "I", "J", "K", "L", "M",
      "N", "O", "P", "Q", "R", "S", "T", "U", "V", "W", "X", "Y", "Z",
      "a", "b", "c", "d", "e", "f", "g", "h", "i", "j", "k", "l", "m",
      "n", "o", "p", "q", "r", "s", "t", "u", "v", "w", "x", "y", "z",
      "0", "1", "2", "3", "4", "5", "6", "7", "8", "9", "+", "/">>

B64Char(v) == B64Table[(v % 64) + 1]

RECURSIVE Base64EncodeToString(_)
\* base64.StdEncoding.Base64EncodeToString: three bytes to four characters, "=" padded
Base64EncodeToString(b) ==
    IF Len(b) = 0 THEN <<>>
    ELSE IF Len(b) = 1
    THEN LET v == b[1] * 65536
         IN  <<B64Char(v \div 262144), B64Char(v \div 4096), "=", "=">>
    ELSE IF Len(b) = 2
    THEN LET v == (b[1] * 65536) + (b[2] * 256)
         IN  <<B64Char(v \div 262144), B64Char(v \div 4096),
               B64Char(v \div 64), "=">>
    ELSE LET v == (b[1] * 65536) + (b[2] * 256) + b[3]
         IN  <<B64Char(v \div 262144), B64Char(v \div 4096),
               B64Char(v \div 64), B64Char(v)>>
             \o Base64EncodeToString(SubSeq(b, 4, Len(b)))

-----------------------------------------------------------------------------
(* The folders and the service the program runs against *)

\* names a source folder may hold, in ReadDir's order (sorted by name)
NamePool ==
    << <<"a">>,
       <<"a", ".", "b", "i", "n">>,
       <<"a", ".", "h", "e", "x">>,
       <<"b", ".", "h", "e", "x">>,
       <<"s", "u", "b">> >>

\* the one name of the pool that is a directory
DirName == <<"s", "u", "b">>

\* file contents: "4 8\n" (the byte 0x48), "6F" (0x6f), "486" (odd length)
Contents == { <<"4", " ", "8", "\n">>, <<"6", "F">>, <<"4", "8", "6">> }

\* destination files that may exist before the first run, and their bytes
PreDst == { <<"a", ".", "t", "x", "t">> }
OldBytes == <<0>>

\* config.spreadsheetId: "" (unset), an id the user typed, an id Create returned
Unset == <<>>
TypedId == <<"S">>
NewId(k) == <<"N", k>>

RECURSIVE SetToSeq(_)
SetToSeq(S) ==
    IF S = {} THEN <<>>
    ELSE LET m == CHOOSE x \in S : \A y \in S : x <= y
         IN  <<m>> \o SetToSeq(S \ {m})

\* the listing holding the pool's names S, name k with content c[k]
Listing(S, c) ==
    LET order == SetToSeq(S)
    IN  [k \in 1..Len(order) |->
            [name |-> NamePool[order[k]],
             isDir |-> NamePool[order[k]] = DirName,
             content |-> IF NamePool[order[k]] = DirName THEN <<>>
                         ELSE c[order[k]]]]

Terminal == {"returned", "interrupted", "listfailed"}
Running == {"select", "body"}

Call(op, i, res, val) == [op |-> op, i |-> i, res |-> res, val |-> val]
Outcome(i, out, err) == [i |-> i, out |-> out, err |-> err]

-----------------------------------------------------------------------------
(* The sinks.  Each returns what the call leaves behind: the error it        *)
(* returns ("nil" for none), the state it wrote, and the calls it made.      *)

fileExistsNever(path) == FALSE

\* fileExists: !os.IsNotExist(err); true for an existing path, and also when
\* Stat fails with some other error
fileExists(path) == path \in DOMAIN dstFiles \/ statFails

convertFileWriteToSrc(i, dstPath, readOk, w) ==
    LET r == HexToAscii(files[i].content)
    IN  [err |-> IF ~readOk THEN "ReadError" ELSE r.err,
         dst |-> dstFiles,
         calls |-> IF ~readOk THEN << Call("ReadFile", i, "fail", <<>>) >>
                   ELSE << Call("ReadFile", i, "ok", <<>>),
                           Call("HexToAscii", i, r.err, r.str) >>]

convertFileWriteFirst(i, dstPath, readOk, w) ==
    LET r == HexToAscii(files[i].content)
    IN  [err |-> IF ~readOk THEN "ReadError" ELSE r.err,
         dst |-> (dstPath :> r.str) @@ dstFiles,
         calls |-> << Call("WriteFile", i, "ok", dstPath) >>]

\* convertFile: ReadFile, HexToAscii, WriteFile.  w is what WriteFile does:
\* "ok", "openfail" (no file made), "partial" (file made and left empty)
convertFile(i, dstPath, readOk, w) ==
    IF ~readOk
    THEN [err |-> "ReadError", dst |-> dstFiles,
          calls |-> << Call("ReadFile", i, "fail", <<>>) >>]
    ELSE LET r == HexToAscii(files[i].content)
             rd == << Call("ReadFile", i, "ok", <<>>),
                      Call("HexToAscii", i, r.err, r.str) >>
         IN  IF r.err # "nil"
             THEN [err |-> r.err, dst |-> dstFiles, calls |-> rd]
             ELSE IF w = "ok"
             THEN [err |-> "nil",
                   dst |-> (dstPath :> r.str) @@ dstFiles,
                   calls |-> Append(rd, Call("WriteFile", i, "ok", dstPath))]
             ELSE IF w = "partial"
             THEN [err |-> "WriteError",
                   dst |-> (dstPath :> <<>>) @@ dstFiles,
                   calls |-> Append(rd, Call("WriteFile", i, "partial", dstPath))]
             ELSE [err |-> "WriteError", dst |-> dstFiles,
                   calls |-> Append(rd, Call("WriteFile", i, "openfail", dstPath))]

\* the tail of exportToGoogleSheets: Values.Append of [fileName, base64]
appendRow(i, cfg, n, calls, payload, appendOk) ==
    LET row == <<files[i].name, Base64EncodeToString(payload)>>
    IN  [err |-> IF appendOk THEN "nil" ELSE "AppendError",
         config |-> cfg, nCreated |-> n,
         calls |-> Append(calls, Call("Append", i,
                                      IF appendOk THEN "ok" ELSE "fail",
                                      <<cfg.spreadsheetId, row>>))]

NeedsCreateAlways(cfg) == TRUE

\* exportToGoogleSheets: if config.spreadsheetId == ""
NeedsCreate(cfg) == cfg.spreadsheetId = Unset

ApiKeyBlocksCreateNever(cfg) == FALSE

\* exportToGoogleSheets: if config.spreadsheetId == "" && config.useApiKey
ApiKeyBlocksCreate(cfg) == cfg.spreadsheetId = Unset /\ cfg.useApiKey

\* exportToGoogleSheets: ReadFile, HexToAscii, Create when the id is unset,
\* Append
exportToGoogleSheets(i, readOk, createOk, appendOk) ==
    IF ~readOk
    THEN [err |-> "ReadError", config |-> config, nCreated |-> nCreated,
          calls |-> << Call("ReadFile", i, "fail", <<>>) >>]
    ELSE LET r == HexToAscii(files[i].content)
             rd == << Call("ReadFile", i, "ok", <<>>),
                      Call("HexToAscii", i, r.err, r.str) >>
         IN  IF r.err # "nil"
             THEN [err |-> r.err, config |-> config, nCreated |-> nCreated,
                   calls |-> rd]
             ELSE IF ApiKeyBlocksCreate(config)
             THEN [err |-> "InsufficientAuthError", config |-> config,
                   nCreated |-> nCreated, calls |-> rd]
             ELSE IF NeedsCreate(config)
             THEN IF ~createOk
                  THEN [err |-> "CreateError", config |-> config,
                        nCreated |-> nCreated,
                        calls |-> Append(rd, Call("Create", i, "fail", Unset))]
                  ELSE appendRow(i,
                           [config EXCEPT !.spreadsheetId = NewId(nCreated + 1)],
                           nCreated + 1,
                           Append(rd, Call("Create", i, "ok",
                                           NewId(nCreated + 1))),
                           r.str, appendOk)
             ELSE appendRow(i, config, nCreated, rd, r.str, appendOk)

AfterEntryReturnOnError(err) == IF err # "nil" THEN "returned" ELSE "select"

\* where the loop goes once an entry is dealt with: `continue` after an error
\* or a skip, the end of the loop body otherwise; both reach the next entry
AfterEntry(err) == "select"

-----------------------------------------------------------------------------
(* Actions of the batch specification *)

\* what main and the head of processFiles set up for a run: the context, the
\* signal goroutine, ReadDir.  The trace opens with the answers main was given.
StartRun ==
    /\ sigChan' = 0
    /\ handlerPc' = "wait"
    /\ ctxDone' = FALSE
    /\ idx' = 1
    /\ log' = <<>>
    /\ \E listOk \in BOOLEAN :
          /\ pc' = IF listOk THEN "select" ELSE "listfailed"
          /\ trace' = << Call("main", 0, exportOption', config'.spreadsheetId),
                         Call("ReadDir", 0, IF listOk THEN "ok" ELSE "fail",
                              <<>>) >>

\* main up to the call of processFiles: the answers to the prompts (export
\* option; the destination folder with what it holds; the authentication
\* method and the spreadsheet id), then processFiles' ReadDir
Main ==
    /\ pc = "idle"
    /\ \E choice \in {"LocalFolder", "GoogleSheets"} :
          /\ exportOption' = choice
          /\ IF choice = "LocalFolder"
             THEN /\ config' = [spreadsheetId |-> Unset, useApiKey |-> FALSE]
                  /\ \E P \in SUBSET PreDst : dstFiles' = [p \in P |-> OldBytes]
                  /\ statFails' \in BOOLEAN
             ELSE /\ \E key \in BOOLEAN, id \in {Unset, TypedId} :
                        config' = [spreadsheetId |-> id, useApiKey |-> key]
                  /\ UNCHANGED <<dstFiles, statFails>>
    /\ StartRun
    /\ UNCHANGED <<files, nCreated, run, prev, decVars>>

\* the program is started again with the same answers once a local run has
\* returned: same source folder, same destination folder
MainAgain ==
    /\ pc = "returned"
    /\ run = "first"
    /\ exportOption = "LocalFolder"
    /\ run' = "second"
    /\ prev' = [log |-> log, dst |-> dstFiles]
    /\ UNCHANGED <<files, dstFiles, statFails, exportOption, config, nCreated,
                   decVars>>
    /\ StartRun

SelectIgnoreDone ==
    /\ pc = "select"
    /\ pc' = IF idx > Len(files) THEN "returned" ELSE "body"
    /\ UNCHANGED <<files, dstFiles, statFails, exportOption, config, nCreated,
                   sigChan, handlerPc, ctxDone, idx, run, log, trace, prev,
                   decVars>>

\* the head of the range loop: past the last entry return, else the select
\* on ctx.Done() with its default case
Select ==
    /\ pc = "select"
    /\ pc' = IF idx > Len(files) THEN "returned"
             ELSE IF ctxDone THEN "interrupted"
             ELSE "body"
    /\ UNCHANGED <<files, dstFiles, statFails, exportOption, config, nCreated,
                   sigChan, handlerPc, ctxDone, idx, run, log, trace, prev,
                   decVars>>

\* if file.IsDir() { continue }
SkipDir ==
    /\ pc = "body"
    /\ files[idx].isDir
    /\ idx' = idx + 1
    /\ pc' = "select"
    /\ UNCHANGED <<files, dstFiles, statFails, exportOption, config, nCreated,
                   sigChan, handlerPc, ctxDone, run, log, trace, prev, decVars>>

\* case LocalFolder: skip when dstPath exists, else convertFile
LocalBody ==
    /\ pc = "body"
    /\ ~files[idx].isDir
    /\ exportOption = "LocalFolder"
    /\ \E readOk \in BOOLEAN, w \in {"ok", "openfail", "partial"} :
          LET dstPath == DstPath(files[idx].name)
              exists == fileExists(dstPath)
              st == Call("Stat", idx, IF exists THEN "exists" ELSE "absent",
                         dstPath)
              r == convertFile(idx, dstPath, readOk, w)
          IN  IF exists
              THEN /\ log' = Append(log, Outcome(idx, "Skipped", "nil"))
                   /\ trace' = Append(trace, st)
                   /\ dstFiles' = dstFiles
                   /\ pc' = AfterEntry("nil")
              ELSE /\ log' = Append(log,
                                IF r.err # "nil"
                                THEN Outcome(idx, "Failed", r.err)
                                ELSE Outcome(idx, "Converted", "nil"))
                   /\ trace' = Append(trace, st) \o r.calls
                   /\ dstFiles' = r.dst
                   /\ pc' = AfterEntry(r.err)
    /\ idx' = idx + 1
    /\ UNCHANGED <<files, statFails, exportOption, config, nCreated, sigChan,
                   handlerPc, ctxDone, run, prev, decVars>>

\* case GoogleSheets: exportToGoogleSheets
SheetsBody ==
    /\ pc = "body"
    /\ ~files[idx].isDir
    /\ exportOption = "GoogleSheets"
    /\ \E readOk \in BOOLEAN, createOk \in BOOLEAN, appendOk \in BOOLEAN :
          LET r == exportToGoogleSheets(idx, readOk, createOk, appendOk)
          IN  /\ log' = Append(log,
                           IF r.err # "nil"
                           THEN Outcome(idx, "Failed", r.err)
                           ELSE Outcome(idx, "Converted", "nil"))
              /\ trace' = trace \o r.calls
              /\ config' = r.config
              /\ nCreated' = r.nCreated
              /\ pc' = AfterEntry(r.err)
    /\ idx' = idx + 1
    /\ UNCHANGED <<files, dstFiles, statFails, exportOption, sigChan,
                   handlerPc, ctxDone, run, prev, decVars>>

\* the operating system delivers SIGINT or SIGTERM: signal.Notify's send to
\* sigChan.  Once the goroutine has received, nothing reads sigChan again, so
\* only the signals up to that one are modelled.
Signal ==
    /\ pc \in Running
    /\ handlerPc = "wait"
    /\ sigChan = 0
    /\ sigChan' = 1
    /\ UNCHANGED <<files, dstFiles, statFails, exportOption, config, nCreated,
                   handlerPc, ctxDone, pc, idx, run, log, trace, prev, decVars>>

\* the goroutine of main: <-sigChan, Println, cancel().  The Println between
\* the receive and cancel() touches nothing the loop reads.
Handler ==
    /\ pc \in Running
    /\ handlerPc = "wait"
    /\ sigChan = 1
    /\ sigChan' = 0
    /\ handlerPc' = "done"
    /\ ctxDone' = TRUE
    /\ UNCHANGED <<files, dstFiles, statFails, exportOption, config, nCreated,
                   pc, idx, run, log, trace, prev, decVars>>

NoPrev == [log |-> <<>>, dst |-> <<>>]

Init ==
    /\ hexStr = <<>>
    /\ decoded = NoResult
    /\ \E S \in SUBSET (1..Len(NamePool)) :
          /\ Cardinality(S) <= MaxFiles
          /\ \E c \in [S -> Contents] : files = Listing(S, c)
    /\ dstFiles = <<>>
    /\ statFails = FALSE
    /\ exportOption = "LocalFolder"
    /\ config = [spreadsheetId |-> Unset, useApiKey |-> FALSE]
    /\ nCreated = 0
    /\ sigChan = 0
    /\ handlerPc = "wait"
    /\ ctxDone = FALSE
    /\ pc = "idle"
    /\ idx = 1
    /\ run = "first"
    /\ log = <<>>
    /\ trace = <<>>
    /\ prev = NoPrev

Next ==
    \/ Main
    \/ MainAgain
    \/ Select
    \/ SkipDir
    \/ LocalBody
    \/ SheetsBody
    \/ Signal
    \/ Handler

Spec == Init /\ [][Next]_vars

-----------------------------------------------------------------------------
(* The decoder specification: HexToAscii applied to every text of at most    *)
(* MaxLen characters over DecAlphabet                                        *)

\* hex digits of both cases, the three characters HexToAscii strips, a
\* character it neither strips nor decodes
DecAlphabet == {"0", "9", "a", "A", "f", "F", " ", "\n", "\r", "g"}

DecInit ==
    /\ hexStr \in UNION { [1..n -> DecAlphabet] : n \in 0..MaxLen }
    /\ decoded = NoResult
    /\ files = <<>>
    /\ dstFiles = <<>>
    /\ statFails = FALSE
    /\ exportOption = "LocalFolder"
    /\ config = [spreadsheetId |-> Unset, useApiKey |-> FALSE]
    /\ nCreated = 0
    /\ sigChan = 0
    /\ handlerPc = "wait"
    /\ ctxDone = FALSE
    /\ pc = "idle"
    /\ idx = 1
    /\ run = "first"
    /\ log = <<>>
    /\ trace = <<>>
    /\ prev = NoPrev

\* asciiStr, err := HexToAscii(string(hexData))
CallHexToAscii ==
    /\ decoded = NoResult
    /\ decoded' = HexToAscii(hexStr)
    /\ UNCHANGED <<hexStr, batchVars>>

DecNext == CallHexToAscii

DecodeSpec == DecInit /\ [][DecNext]_vars

-----------------------------------------------------------------------------
(* What the claims speak of, stated apart from the code's own definitions *)

HexDigits ==
    {"0", "1", "2", "3", "4", "5", "6", "7", "8", "9",
     "a", "b", "c", "d", "e", "f", "A", "B", "C", "D", "E", "F"}

Stripped(h) == SelectSeq(h, LAMBDA c : c \notin {" ", "\n", "\r"})

ValidHexText(h) ==
    /\ Len(Stripped(h)) % 2 = 0
    /\ \A k \in 1..Len(Stripped(h)) : Stripped(h)[k] \in HexDigits

LowerDigits ==
    <<"0", "1", "2", "3", "4", "5", "6", "7", "8", "9",
      "a", "b", "c", "d", "e", "f">>

RECURSIVE HexEncode(_)
\* bytes written back as hex text, two lower-case digits a byte, high first
HexEncode(b) ==
    IF b = <<>> THEN <<>>
    ELSE <<LowerDigits[(b[1] \div 16) + 1], LowerDigits[(b[1] % 16) + 1]>>
         \o HexEncode(Tail(b))

LowerCase(c) ==
    CASE c = "A" -> "a" [] c = "B" -> "b" [] c = "C" -> "c"
      [] c = "D" -> "d" [] c = "E" -> "e" [] c = "F" -> "f"
      [] OTHER -> c

Folded(h) == [k \in 1..Len(h) |-> LowerCase(h[k])]

Returned == decoded.err # "none"

-----------------------------------------------------------------------------
(* Claims about HexToAscii, under DecodeSpec *)

\* C1: for every valid hex text (after removing space, \n and \r an even
\* number of hex digits of either case) HexToAscii succeeds, and the bytes it
\* returns, written back as hex, equal the stripped text up to letter case.
C1_RoundTrip ==
    (Returned /\ ValidHexText(hexStr)) =>
        /\ decoded.err = "nil"
        /\ HexEncode(decoded.str) = Folded(Stripped(hexStr))

\* a text with an upper-case digit and a stripped character that decoded to a
\* byte whose two nibbles differ
C1_Witness ==
    /\ Returned
    /\ ValidHexText(hexStr)
    /\ Len(hexStr) > Len(Stripped(hexStr))
    /\ \E k \in 1..Len(hexStr) : hexStr[k] = "A"
    /\ decoded.str = <<10 * 16 + 9>>

\* C2: when the text left after removing space, \n and \r has odd length or a
\* character that is no hex digit, HexToAscii returns an error and no payload.
C2_MalformedFails ==
    (Returned /\ ~ValidHexText(hexStr)) =>
        /\ decoded.err \in {"ErrLength", "InvalidByteError"}
        /\ decoded.str = <<>>

\* an odd number of hex digits among stripped characters
C2_Witness ==
    /\ Returned
    /\ Len(Stripped(hexStr)) = 3
    /\ Len(hexStr) = 4
    /\ \A k \in 1..3 : Stripped(hexStr)[k] \in HexDigits
    /\ decoded.err = "ErrLength"

-----------------------------------------------------------------------------
(* Claims about processFiles, under Spec *)

Entries == 1..Len(files)

\* the positions of the log that report entry i
Reports(i) == {k \in 1..Len(log) : log[k].i = i}

\* the calls of the trace `t` made for entry i whose operation is in `ops`
CallsIn(t, i, ops) == {k \in 1..Len(t) : t[k].i = i /\ t[k].op \in ops}

CallsOf(op) == {k \in 1..Len(trace) : trace[k].op = op}

\* no signal has reached the program in this run
NoSignal == sigChan = 0 /\ handlerPc = "wait" /\ ~ctxDone

\* the name without its extension (what follows its last "."), then ".txt"
LastDot(name) ==
    LET dots == {k \in 1..Len(name) : name[k] = "."}
    IN  IF dots = {} THEN Len(name) + 1
        ELSE CHOOSE k \in dots : \A j \in dots : j <= k

TxtPath(name) == SubSeq(name, 1, LastDot(name) - 1) \o <<".", "t", "x", "t">>

Local == exportOption = "LocalFolder"
Sheets == exportOption = "GoogleSheets"

\* the step is the loop body finishing file entry idx
BodyStep == pc = "body" /\ pc' # "body" /\ ~files[idx].isDir

\* C3: in a run in which no cancellation is signalled, processFiles ends by
\* returning from the loop (unless the folder could not be listed), and then
\* every non-directory entry of the listing has exactly one outcome, which is
\* Converted, Skipped or Failed, and no directory has one.
C3_EveryEntryOneOutcome ==
    (pc \in Terminal /\ NoSignal) =>
        /\ pc # "interrupted"
        /\ pc = "returned" =>
              \A i \in Entries :
                 IF files[i].isDir THEN Reports(i) = {}
                 ELSE /\ Cardinality(Reports(i)) = 1
                      /\ \A k \in Reports(i) :
                            log[k].out \in {"Converted", "Skipped", "Failed"}

\* a run of three entries that returned with a failure first and a success last
C3_Witness ==
    /\ pc = "returned"
    /\ NoSignal
    /\ Len(files) = 3
    /\ Len(log) = 3
    /\ log[1].out = "Failed"
    /\ log[2].out = "Failed"
    /\ log[3].out = "Converted"

\* C4: once the context is cancelled and the loop is at its head with entries
\* left, the run ends there: nothing more is logged, read, decoded, written or
\* sent, then or later.  An entry whose body has begun when the context is
\* cancelled still ends with its outcome logged.
C4_CooperativeCancel ==
    [][/\ (pc = "select" /\ ctxDone /\ idx <= Len(files)) =>
             /\ pc' = "interrupted"
             /\ UNCHANGED <<log, trace, dstFiles, config, nCreated, idx>>
       /\ pc = "interrupted" => UNCHANGED vars
       /\ (BodyStep /\ ctxDone) =>
             /\ log' = Append(log, log'[Len(log')])
             /\ log'[Len(log')].i = idx
             /\ pc' = "select"]_vars

\* cancelled after entry 2 of 3: two outcomes, the run interrupted at entry 3
C4_Witness ==
    /\ pc = "interrupted"
    /\ Len(files) = 3
    /\ idx = 3
    /\ Len(log) = 2
    /\ CallsIn(trace, 3, {"Stat", "ReadFile", "HexToAscii", "WriteFile",
                          "Create", "Append"}) = {}

\* C5: local sink: when the destination path of the entry (its name with the
\* extension replaced by .txt) exists as the entry is visited, the entry is
\* logged Skipped, its source is neither read nor decoded, and no destination
\* file changes.
C5_SkipExisting ==
    [][(BodyStep /\ Local /\ TxtPath(files[idx].name) \in DOMAIN dstFiles) =>
          /\ log' = Append(log, Outcome(idx, "Skipped", "nil"))
          /\ dstFiles' = dstFiles
          /\ CallsIn(trace', idx, {"ReadFile", "HexToAscii", "WriteFile"}) = {}
      ]_vars

\* a well-formed a.hex skipped over an a.txt that held other bytes before
C5_Witness ==
    /\ Local
    /\ run = "first"
    /\ Len(log) = 1
    /\ log[1].out = "Skipped"
    /\ files[1].name = <<"a", ".", "h", "e", "x">>
    /\ ValidHexText(files[1].content)
    /\ ~statFails
    /\ dstFiles = (<<"a", ".", "t", "x", "t">> :> OldBytes)

\* the run is a Sheets run that main began with this id and credential class
SheetsRunFrom(id, key) ==
    /\ Sheets
    /\ pc # "idle"
    /\ trace[1].val = id
    /\ config.useApiKey = key

CreatesOk == {k \in CallsOf("Create") : trace[k].res = "ok"}

\* C6 as stated: in a Sheets run begun with an unset id and a credential that
\* may create, Create is called at most once in the whole run, and exactly
\* once when a row was appended.
C6_CreateCalledOnce ==
    SheetsRunFrom(Unset, FALSE) =>
        /\ Cardinality(CallsOf("Create")) <= 1
        /\ (\E k \in CallsOf("Append") : trace[k].res = "ok") =>
               Cardinality(CallsOf("Create")) = 1

\* C6 amended: in such a run Create succeeds at most once, and exactly once
\* when a row was appended; a Create that fails leaves the id unset, so that a
\* later entry calls Create again; the id is unset until Create succeeds and
\* is the id that Create returned from then on; every Append is sent to that
\* id, and none before it is there.
C6_CreateSucceedsOnce ==
    SheetsRunFrom(Unset, FALSE) =>
        /\ Cardinality(CreatesOk) <= 1
        /\ (\E k \in CallsOf("Append") : trace[k].res = "ok") =>
               Cardinality(CreatesOk) = 1
        /\ CreatesOk = {} => config.spreadsheetId = Unset
        /\ \A c \in CreatesOk :
              /\ trace[c].val # Unset
              /\ config.spreadsheetId = trace[c].val
              /\ \A k \in CallsOf("Create") : k <= c
        /\ \A k \in CallsOf("Append") :
              /\ trace[k].val[1] = config.spreadsheetId
              /\ \E c \in CreatesOk : c < k

\* Create fails for the first entry, succeeds for the second, and the second
\* and third rows go to the id it returned
C6_Witness ==
    /\ SheetsRunFrom(Unset, FALSE)
    /\ pc = "returned"
    /\ Len(log) = 3
    /\ log[1].err = "CreateError"
    /\ log[2].out = "Converted"
    /\ log[3].out = "Converted"
    /\ Cardinality(CallsOf("Create")) = 2
    /\ Cardinality(CallsOf("Append")) = 2

\* C7: in a Sheets run with an API key and an unset id, every entry that is
\* read and decodes is logged Failed with InsufficientAuthError, neither Create
\* nor Append is ever called, the id stays unset, and the batch goes on: the
\* entries after a failed one are read in turn, and a run that returns has
\* logged every file entry.
C7_ApiKeyCannotCreate ==
    SheetsRunFrom(Unset, TRUE) =>
        /\ CallsOf("Create") = {}
        /\ CallsOf("Append") = {}
        /\ config.spreadsheetId = Unset
        /\ \A k \in 1..Len(log) :
              /\ CallsIn(trace, log[k].i, {"ReadFile"}) # {}
              /\ (/\ \E c \in CallsIn(trace, log[k].i, {"ReadFile"}) :
                        trace[c].res = "ok"
                  /\ ValidHexText(files[log[k].i].content))
                 => log[k] = Outcome(log[k].i, "Failed", "InsufficientAuthError")
        /\ pc = "returned" =>
              \A i \in Entries : ~files[i].isDir => Reports(i) # {}

\* three well-formed entries, all three refused for the credential
C7_Witness ==
    /\ SheetsRunFrom(Unset, TRUE)
    /\ pc = "returned"
    /\ Len(log) = 3
    /\ \A k \in 1..3 : log[k].err = "InsufficientAuthError"

\* C8: local sink: the body of an entry whose content is malformed leaves every
\* destination file as it was and creates none; when the source was read, the
\* entry is logged Failed with the decoder's error.
C8_MalformedWritesNothing ==
    [][(BodyStep /\ Local /\ ~ValidHexText(files[idx].content)) =>
          /\ dstFiles' = dstFiles
          /\ (\E c \in CallsIn(trace', idx, {"ReadFile"}) : trace'[c].res = "ok")
             => \E e \in {"ErrLength", "InvalidByteError"} :
                   log' = Append(log, Outcome(idx, "Failed", e))
      ]_vars

\* b.hex held "486": Failed, and the destination folder is still empty
C8_Witness ==
    /\ Local
    /\ Len(files) = 1
    /\ files[1].name = <<"b", ".", "h", "e", "x">>
    /\ files[1].content = <<"4", "8", "6">>
    /\ log = << Outcome(1, "Failed", "ErrLength") >>
    /\ dstFiles = <<>>

\* the outcome the first run logged for entry i
PrevOut(i) == {prev.log[k].out : k \in {j \in 1..Len(prev.log) : prev.log[j].i = i}}

ReportsTo(p) == {k \in 1..Len(log) : TxtPath(files[log[k].i].name) = p}

\* the WriteFile calls that made a file (all but those that failed to open it)
Wrote == {k \in CallsOf("WriteFile") : trace[k].res # "openfail"}

\* C10: within a local run each destination path is written at most once (a
\* WriteFile that could not open the path wrote nothing) and a file that
\* exists is never overwritten or removed; of the entries that share a
\* destination, every one after the first Converted one is Skipped, and the
\* destination holds the payload of that first one.
C10_FirstWriterWins ==
    /\ [](Local =>
            /\ \A k \in Wrote :
                  \A j \in Wrote : trace[j].val = trace[k].val => j = k
            /\ \A k \in 1..Len(log) :
                  log[k].out = "Converted" =>
                     LET p == TxtPath(files[log[k].i].name)
                     IN  /\ p \in DOMAIN dstFiles
                         /\ dstFiles[p] = HexToAscii(files[log[k].i].content).str
                         /\ \A j \in ReportsTo(p) :
                               j > k => log[j].out = "Skipped")
    /\ [][\A p \in DOMAIN dstFiles :
             p \in DOMAIN dstFiles' /\ dstFiles'[p] = dstFiles[p]]_vars

\* a, a.bin and a.hex all go to a.txt: a is malformed, a.bin is converted,
\* a.hex with another payload is skipped
C10_Witness ==
    /\ Local
    /\ run = "first"
    /\ Len(files) = 3
    /\ \A i \in Entries : TxtPath(files[i].name) = <<"a", ".", "t", "x", "t">>
    /\ Len(log) = 3
    /\ log[1].out = "Failed"
    /\ log[2].out = "Converted"
    /\ log[3].out = "Skipped"
    /\ files[3].content = <<"6", "F">>
    /\ dstFiles = (<<"a", ".", "t", "x", "t">> :> <<72>>)

=============================================================================
